---- MODULE Spec2Model ----
(***************************************************************************)
(* Model of rust-format's format_file (src/lib.rs): locate the `rustfmt`   *)
(* component, spawn it on the target path with three piped standard        *)
(* streams, wait for it while capturing its output and classify the exit   *)
(* status into Ok(()) or one of the four Error variants.                   *)
(*                                                                         *)
(* Every invocation i has its own locals (pc, rustfmt, stdin, out, result) *)
(* and its own child process (child, status, stdoutPipe, stderrPipe).  The *)
(* file system (file) is the only state all invocations share.             *)
(***************************************************************************)
EXTENDS Integers, Sequences, FiniteSets, TLC

\* ------------------------------------------------------------------ bounds
\* Number of format_file invocations that may run concurrently.
NumCalls == 2
\* Number of bytes a child writes to its pipes when one invocation runs.
MaxOut == 3
\* Number of bytes all children write to their pipes in concurrent runs.
MaxConcOut == 1

Calls == 1..NumCalls

\* ------------------------------------------------------- the program's data
TOOL_NAME == "rustfmt"

\* Paths the locator can answer with.
ToolPaths == {"/toolchain/bin/rustfmt"}
\* Target files the caller can pass.
Paths == {"a.rs", "b.rs"}
\* Contents of a target file: not yet formatted, formatted, or not parseable.
Contents == {"messy", "formatted", "broken"}
\* std::io::Error values of a failing spawn or wait.
OsErrors == {"EACCES", "EINTR"}
\* Exit codes a normally exiting child reports.
ExitCodes == {0, 1, 2}
\* Bytes a child writes: 'A', and the two bytes of U+00E9 (0xC3 0xA9).
Bytes == {65, 195, 169}

\* Option<T> as a sequence of length at most one.
None == <<>>
Some(x) == <<x>>

\* ---------------------------------------------------------- UTF-8 decoding
\* Continuation byte 0x80..=0xBF.
IsCont(b) == b >= 128 /\ b <= 191

\* Width of the UTF-8 sequence a first byte announces (0: not a first byte).
Utf8CharWidth(b) ==
    IF b < 128 THEN 1
    ELSE IF b >= 194 /\ b <= 223 THEN 2
    ELSE IF b >= 224 /\ b <= 239 THEN 3
    ELSE IF b >= 240 /\ b <= 244 THEN 4
    ELSE 0

\* Is the sequence of w bytes starting at bs[1] one well-formed scalar value?
ValidAt(bs, w) ==
    /\ w > 0
    /\ Len(bs) >= w
    /\ CASE w = 1 -> TRUE
         [] w = 2 -> IsCont(bs[2])
         [] w = 3 -> /\ IsCont(bs[3])
                     /\ CASE bs[1] = 224 -> bs[2] >= 160 /\ bs[2] <= 191
                          [] bs[1] = 237 -> bs[2] >= 128 /\ bs[2] <= 159
                          [] OTHER -> IsCont(bs[2])
         [] w = 4 -> /\ IsCont(bs[3]) /\ IsCont(bs[4])
                     /\ CASE bs[1] = 240 -> bs[2] >= 144 /\ bs[2] <= 191
                          [] bs[1] = 244 -> bs[2] >= 128 /\ bs[2] <= 143
                          [] OTHER -> IsCont(bs[2])

\* The scalar value the w bytes at bs[1] encode.
ScalarAt(bs, w) ==
    CASE w = 1 -> bs[1]
      [] w = 2 -> (bs[1] - 192) * 64 + (bs[2] - 128)
      [] w = 3 -> (bs[1] - 224) * 4096 + (bs[2] - 128) * 64 + (bs[3] - 128)
      [] w = 4 -> (bs[1] - 240) * 262144 + (bs[2] - 128) * 4096
                  + (bs[3] - 128) * 64 + (bs[4] - 128)

RECURSIVE Utf8Validate(_)
\* Does the whole byte sequence consist of well-formed sequences?
Utf8Validate(bs) ==
    IF bs = <<>> THEN TRUE
    ELSE LET w == Utf8CharWidth(bs[1])
         IN  /\ ValidAt(bs, w)
             /\ Utf8Validate(SubSeq(bs, w + 1, Len(bs)))

RECURSIVE Chars(_)
\* The chars of a valid byte sequence, as scalar values.
Chars(bs) ==
    IF bs = <<>> THEN <<>>
    ELSE LET w == Utf8CharWidth(bs[1])
         IN  <<ScalarAt(bs, w)>> \o Chars(SubSeq(bs, w + 1, Len(bs)))

\* String::from_utf8: Ok(String) holding all the bytes, or Err(FromUtf8Error).
FromUtf8(bs) ==
    IF Utf8Validate(bs) THEN [ok |-> TRUE, string |-> Chars(bs)]
    ELSE [ok |-> FALSE]

\* Faulty variant: a decoding error becomes an empty text.
IoStreamFrom_Lossy(r) ==
    [tag |-> "Text", text |-> IF r.ok THEN r.string ELSE <<>>]

\* impl From<Result<String, FromUtf8Error>> for IoStream.
IoStreamFrom(r) ==
    IF r.ok THEN [tag |-> "Text", text |-> r.string]
    ELSE [tag |-> "InvalidUtf8"]

\* ExitStatus::code(): the exit code, or None after death by signal.
Code(st) == IF st.kind = "exit" THEN Some(st.code) ELSE None

\* What the external tool makes of a file's contents.
Fmt(c) == IF c = "messy" THEN "formatted" ELSE c

\* -------------------------------------------------------------------- state
VARIABLES
    pc,          \* position of each invocation in format_file
    rustfmt,     \* the located tool path (Option)
    stdin,       \* the parent's end of the child's stdin pipe
    out,         \* the Output wait_with_output returned
    result,      \* the value format_file returned
    child,       \* state of the spawned process
    status,      \* ExitStatus of the terminated process
    stdoutPipe,  \* bytes the child wrote to its stdout
    stderrPipe,  \* bytes the child wrote to its stderr
    file,        \* contents of the target files
    path,        \* the path argument of each invocation
    asked,       \* names the locator was asked for, in order
    spawns,      \* spawn() calls made
    waits,       \* wait_with_output() calls made
    oserr,       \* the io::Error the OS reported to the invocation (Option)
    before,      \* contents of the files before the invocations were made
    rewrote      \* has the child rewritten the target file?

vars == <<pc, rustfmt, stdin, out, result, child, status, stdoutPipe,
          stderrPipe, file, path, asked, spawns, waits, oserr, before,
          rewrote>>

RECURSIVE SumLen(_, _)
SumLen(pipes, n) ==
    IF n = 0 THEN 0 ELSE Len(pipes[n]) + SumLen(pipes, n - 1)

\* Bytes written so far to all the stdout and stderr pipes.
Written == SumLen(stdoutPipe, NumCalls) + SumLen(stderrPipe, NumCalls)

Pending == [kind |-> "Pending"]
NoOutput == [kind |-> "NoOutput"]
NoStatus == [kind |-> "none"]

InitLocals ==
    /\ pc = [i \in Calls |-> "NotStarted"]
    /\ rustfmt = [i \in Calls |-> None]
    /\ stdin = [i \in Calls |-> "none"]
    /\ out = [i \in Calls |-> NoOutput]
    /\ result = [i \in Calls |-> Pending]
    /\ child = [i \in Calls |-> "none"]
    /\ status = [i \in Calls |-> NoStatus]
    /\ stdoutPipe = [i \in Calls |-> <<>>]
    /\ stderrPipe = [i \in Calls |-> <<>>]
    /\ asked = [i \in Calls |-> <<>>]
    /\ spawns = [i \in Calls |-> 0]
    /\ waits = [i \in Calls |-> 0]
    /\ oserr = [i \in Calls |-> None]
    /\ rewrote = [i \in Calls |-> FALSE]

\* One invocation at a time: any file contents, any target path.
Init ==
    /\ InitLocals
    /\ file \in [Paths -> Contents]
    /\ \E p \in Paths : path = [i \in Calls |-> p]
    /\ before = file

\* Concurrent invocations, all on the same unformatted file.
InitConc ==
    /\ InitLocals
    /\ file = [p \in Paths |-> "messy"]
    /\ path = [i \in Calls |-> "a.rs"]
    /\ before = file

\* ------------------------------------------------------------- format_file
\* Line 73: the locator finds the component.
LocateFound(i, p) ==
    /\ pc[i] = "NotStarted"
    /\ asked' = [asked EXCEPT ![i] = Append(@, TOOL_NAME)]
    /\ rustfmt' = [rustfmt EXCEPT ![i] = Some(p)]
    /\ pc' = [pc EXCEPT ![i] = "ToolResolved"]
    /\ UNCHANGED <<oserr, stdin, out, result, child, status, stdoutPipe,
                   stderrPipe, file, path, spawns, waits, before, rewrote>>

\* Faulty variant: a missing tool is not reported; the call goes on to spawn.
LocateMissing_Spawns(i) ==
    /\ pc[i] = "NotStarted"
    /\ asked' = [asked EXCEPT ![i] = Append(@, TOOL_NAME)]
    /\ pc' = [pc EXCEPT ![i] = "ToolResolved"]
    /\ UNCHANGED <<oserr, rustfmt, stdin, out, result, child, status,
                   stdoutPipe, stderrPipe, file, path, spawns, waits, before,
                   rewrote>>

\* Line 73: the locator returns None; `?` returns Error::ToolMissing.
LocateMissing(i) ==
    /\ pc[i] = "NotStarted"
    /\ asked' = [asked EXCEPT ![i] = Append(@, TOOL_NAME)]
    /\ result' = [result EXCEPT ![i] = [kind |-> "ToolMissing", tool |-> TOOL_NAME]]
    /\ pc' = [pc EXCEPT ![i] = "Classified"]
    /\ UNCHANGED <<oserr, rustfmt, stdin, out, child, status, stdoutPipe,
                   stderrPipe, file, path, spawns, waits, before, rewrote>>

\* Faulty variant: spawning opens the target file for writing and truncates it.
SpawnOk_Truncates(i) ==
    /\ pc[i] = "ToolResolved"
    /\ spawns' = [spawns EXCEPT ![i] = @ + 1]
    /\ child' = [child EXCEPT ![i] = "running"]
    /\ stdin' = [stdin EXCEPT ![i] = "open"]
    /\ stdoutPipe' = [stdoutPipe EXCEPT ![i] = <<>>]
    /\ stderrPipe' = [stderrPipe EXCEPT ![i] = <<>>]
    /\ file' = [file EXCEPT ![path[i]] = "broken"]
    /\ pc' = [pc EXCEPT ![i] = "ProcessSpawned"]
    /\ UNCHANGED <<oserr, rustfmt, out, result, status, path, asked, waits,
                   before, rewrote>>

\* Lines 75-80: the process is spawned with its three streams piped.
SpawnOk(i) ==
    /\ pc[i] = "ToolResolved"
    /\ spawns' = [spawns EXCEPT ![i] = @ + 1]
    /\ child' = [child EXCEPT ![i] = "running"]
    /\ stdin' = [stdin EXCEPT ![i] = "open"]
    /\ stdoutPipe' = [stdoutPipe EXCEPT ![i] = <<>>]
    /\ stderrPipe' = [stderrPipe EXCEPT ![i] = <<>>]
    /\ pc' = [pc EXCEPT ![i] = "ProcessSpawned"]
    /\ UNCHANGED <<oserr, rustfmt, out, result, status, file, path, asked,
                   waits, before, rewrote>>

\* Faulty variant: a failed spawn is retried from the tool lookup.
SpawnFail_Retry(i, e) ==
    /\ pc[i] = "ToolResolved"
    /\ spawns' = [spawns EXCEPT ![i] = @ + 1]
    /\ rustfmt' = [rustfmt EXCEPT ![i] = None]
    /\ pc' = [pc EXCEPT ![i] = "NotStarted"]
    /\ UNCHANGED <<oserr, stdin, out, result, child, status, stdoutPipe,
                   stderrPipe, file, path, asked, waits, before, rewrote>>

\* Line 80: spawn() fails; `?` converts the io::Error with #[from].
SpawnFail(i, e) ==
    /\ pc[i] = "ToolResolved"
    /\ spawns' = [spawns EXCEPT ![i] = @ + 1]
    /\ oserr' = [oserr EXCEPT ![i] = Some(e)]
    /\ result' = [result EXCEPT ![i] = [kind |-> "IoError", error |-> e]]
    /\ pc' = [pc EXCEPT ![i] = "Classified"]
    /\ UNCHANGED <<rustfmt, stdin, out, child, status, stdoutPipe, stderrPipe,
                   file, path, asked, waits, before, rewrote>>

\* Faulty variant: the wait starts with the child's stdin still held open.
WaitBegin_KeepsStdin(i) ==
    /\ pc[i] = "ProcessSpawned"
    /\ waits' = [waits EXCEPT ![i] = @ + 1]
    /\ pc' = [pc EXCEPT ![i] = "Waiting"]
    /\ UNCHANGED <<oserr, rustfmt, stdin, out, result, child, status,
                   stdoutPipe, stderrPipe, file, path, asked, spawns, before,
                   rewrote>>

\* Line 82: wait_with_output() starts by dropping the child's stdin handle.
WaitBegin(i) ==
    /\ pc[i] = "ProcessSpawned"
    /\ waits' = [waits EXCEPT ![i] = @ + 1]
    /\ stdin' = [stdin EXCEPT ![i] = "closed"]
    /\ pc' = [pc EXCEPT ![i] = "Waiting"]
    /\ UNCHANGED <<oserr, rustfmt, out, result, child, status, stdoutPipe,
                   stderrPipe, file, path, asked, spawns, before, rewrote>>

\* Faulty variant: every invocation reads the pipes of the first child.
WaitOk_SharedPipes(i) ==
    /\ pc[i] = "Waiting"
    /\ child[i] \in {"exited", "signaled"}
    /\ out' = [out EXCEPT ![i] = [kind |-> "Output", status |-> status[i],
                                  stdout |-> stdoutPipe[1],
                                  stderr |-> stderrPipe[1]]]
    /\ pc' = [pc EXCEPT ![i] = "ProcessExited"]
    /\ UNCHANGED <<oserr, rustfmt, stdin, result, child, status, stdoutPipe,
                   stderrPipe, file, path, asked, spawns, waits, before,
                   rewrote>>

\* Line 82: both pipes are read to their end and the child is reaped.
WaitOk(i) ==
    /\ pc[i] = "Waiting"
    /\ child[i] \in {"exited", "signaled"}
    /\ out' = [out EXCEPT ![i] = [kind |-> "Output", status |-> status[i],
                                  stdout |-> stdoutPipe[i],
                                  stderr |-> stderrPipe[i]]]
    /\ pc' = [pc EXCEPT ![i] = "ProcessExited"]
    /\ UNCHANGED <<oserr, rustfmt, stdin, result, child, status, stdoutPipe,
                   stderrPipe, file, path, asked, spawns, waits, before,
                   rewrote>>

\* Faulty variant: a failed wait is reported as a missing result code.
WaitFail_Swallowed(i, e) ==
    /\ pc[i] = "Waiting"
    /\ oserr' = [oserr EXCEPT ![i] = Some(e)]
    /\ result' = [result EXCEPT ![i] = [kind |-> "NoResultCode"]]
    /\ pc' = [pc EXCEPT ![i] = "Classified"]
    /\ UNCHANGED <<rustfmt, stdin, out, child, status, stdoutPipe, stderrPipe,
                   file, path, asked, spawns, waits, before, rewrote>>

\* Line 82: reading the pipes or waiting fails; `?` returns Error::IoError.
WaitFail(i, e) ==
    /\ pc[i] = "Waiting"
    /\ oserr' = [oserr EXCEPT ![i] = Some(e)]
    /\ result' = [result EXCEPT ![i] = [kind |-> "IoError", error |-> e]]
    /\ pc' = [pc EXCEPT ![i] = "Classified"]
    /\ UNCHANGED <<rustfmt, stdin, out, child, status, stdoutPipe, stderrPipe,
                   file, path, asked, spawns, waits, before, rewrote>>

\* Faulty variant: a missing exit code defaults to -1 and is reported as a tool failure.
ClassifyNoCode_Default(i) ==
    /\ pc[i] = "ProcessExited"
    /\ Code(out[i].status) = None
    /\ result' = [result EXCEPT ![i] =
           [kind |-> "ToolExecutionError",
            code |-> -1,
            stdout |-> IoStreamFrom(FromUtf8(out[i].stdout)),
            stderr |-> IoStreamFrom(FromUtf8(out[i].stderr))]]
    /\ pc' = [pc EXCEPT ![i] = "Classified"]
    /\ UNCHANGED <<oserr, rustfmt, stdin, out, child, status, stdoutPipe,
                   stderrPipe, file, path, asked, spawns, waits, before,
                   rewrote>>

\* Line 83: no exit code; `?` returns Error::NoResultCode.
ClassifyNoCode(i) ==
    /\ pc[i] = "ProcessExited"
    /\ Code(out[i].status) = None
    /\ result' = [result EXCEPT ![i] = [kind |-> "NoResultCode"]]
    /\ pc' = [pc EXCEPT ![i] = "Classified"]
    /\ UNCHANGED <<oserr, rustfmt, stdin, out, child, status, stdoutPipe,
                   stderrPipe, file, path, asked, spawns, waits, before,
                   rewrote>>

\* Faulty variant: the two captured streams are swapped.
ClassifyFailure_Swapped(i) ==
    /\ pc[i] = "ProcessExited"
    /\ Code(out[i].status) # None
    /\ LET code == Code(out[i].status)[1]
       IN  /\ code # 0
           /\ result' = [result EXCEPT ![i] =
                  [kind |-> "ToolExecutionError",
                   code |-> code,
                   stdout |-> IoStreamFrom(FromUtf8(out[i].stderr)),
                   stderr |-> IoStreamFrom(FromUtf8(out[i].stdout))]]
    /\ pc' = [pc EXCEPT ![i] = "Classified"]
    /\ UNCHANGED <<oserr, rustfmt, stdin, out, child, status, stdoutPipe,
                   stderrPipe, file, path, asked, spawns, waits, before,
                   rewrote>>

\* Lines 84-89: a non-zero code becomes Error::ToolExecutionError.
ClassifyFailure(i) ==
    /\ pc[i] = "ProcessExited"
    /\ Code(out[i].status) # None
    /\ LET code == Code(out[i].status)[1]
       IN  /\ code # 0
           /\ result' = [result EXCEPT ![i] =
                  [kind |-> "ToolExecutionError",
                   code |-> code,
                   stdout |-> IoStreamFrom(FromUtf8(out[i].stdout)),
                   stderr |-> IoStreamFrom(FromUtf8(out[i].stderr))]]
    /\ pc' = [pc EXCEPT ![i] = "Classified"]
    /\ UNCHANGED <<oserr, rustfmt, stdin, out, child, status, stdoutPipe,
                   stderrPipe, file, path, asked, spawns, waits, before,
                   rewrote>>

\* Faulty variant: code zero counts as success only when stderr is empty.
ClassifySuccess_QuietOnly(i) ==
    /\ pc[i] = "ProcessExited"
    /\ Code(out[i].status) # None
    /\ Code(out[i].status)[1] = 0
    /\ result' = [result EXCEPT ![i] =
           IF out[i].stderr = <<>>
           THEN [kind |-> "Ok"]
           ELSE [kind |-> "ToolExecutionError",
                 code |-> 0,
                 stdout |-> IoStreamFrom(FromUtf8(out[i].stdout)),
                 stderr |-> IoStreamFrom(FromUtf8(out[i].stderr))]]
    /\ pc' = [pc EXCEPT ![i] = "Classified"]
    /\ UNCHANGED <<oserr, rustfmt, stdin, out, child, status, stdoutPipe,
                   stderrPipe, file, path, asked, spawns, waits, before,
                   rewrote>>

\* Lines 90-92: code zero is Ok(()).
ClassifySuccess(i) ==
    /\ pc[i] = "ProcessExited"
    /\ Code(out[i].status) # None
    /\ Code(out[i].status)[1] = 0
    /\ result' = [result EXCEPT ![i] = [kind |-> "Ok"]]
    /\ pc' = [pc EXCEPT ![i] = "Classified"]
    /\ UNCHANGED <<oserr, rustfmt, stdin, out, child, status, stdoutPipe,
                   stderrPipe, file, path, asked, spawns, waits, before,
                   rewrote>>

\* --------------------------------------------------- the spawned rustfmt
\* The child writes a byte to its stdout (at most max bytes are written).
ToolWriteStdout(i, b, max) ==
    /\ child[i] = "running"
    /\ Written < max
    /\ stdoutPipe' = [stdoutPipe EXCEPT ![i] = Append(@, b)]
    /\ UNCHANGED <<oserr, pc, rustfmt, stdin, out, result, child, status,
                   stderrPipe, file, path, asked, spawns, waits, before,
                   rewrote>>

\* The child writes a byte to its stderr (at most max bytes are written).
ToolWriteStderr(i, b, max) ==
    /\ child[i] = "running"
    /\ Written < max
    /\ stderrPipe' = [stderrPipe EXCEPT ![i] = Append(@, b)]
    /\ UNCHANGED <<oserr, pc, rustfmt, stdin, out, result, child, status,
                   stdoutPipe, file, path, asked, spawns, waits, before,
                   rewrote>>

\* The child reads its stdin while the parent holds the (empty) pipe open.
ToolReadStdin(i) ==
    /\ child[i] = "running"
    /\ stdin[i] = "open"
    /\ child' = [child EXCEPT ![i] = "blocked"]
    /\ UNCHANGED <<oserr, pc, rustfmt, stdin, out, result, status, stdoutPipe,
                   stderrPipe, file, path, asked, spawns, waits, before,
                   rewrote>>

\* The parent's end is closed: the blocked read returns end-of-file.
ToolStdinEof(i) ==
    /\ child[i] = "blocked"
    /\ stdin[i] = "closed"
    /\ child' = [child EXCEPT ![i] = "running"]
    /\ UNCHANGED <<oserr, pc, rustfmt, stdin, out, result, status, stdoutPipe,
                   stderrPipe, file, path, asked, spawns, waits, before,
                   rewrote>>

\* The child rewrites the target file in place with its formatting.
ToolRewrite(i) ==
    /\ child[i] = "running"
    /\ ~rewrote[i]
    /\ file[path[i]] # "broken"
    /\ file' = [file EXCEPT ![path[i]] = Fmt(@)]
    /\ rewrote' = [rewrote EXCEPT ![i] = TRUE]
    /\ UNCHANGED <<oserr, pc, rustfmt, stdin, out, result, child, status,
                   stdoutPipe, stderrPipe, path, asked, spawns, waits,
                   before>>

\* The child exits with a code; it reports 0 only after formatting the file.
ToolExit(i, c) ==
    /\ child[i] = "running"
    /\ c = 0 => rewrote[i]
    /\ child' = [child EXCEPT ![i] = "exited"]
    /\ status' = [status EXCEPT ![i] = [kind |-> "exit", code |-> c]]
    /\ UNCHANGED <<oserr, pc, rustfmt, stdin, out, result, stdoutPipe,
                   stderrPipe, file, path, asked, spawns, waits, before,
                   rewrote>>

\* The child is killed by a signal: its status has no code.
ToolKilled(i) ==
    /\ child[i] \in {"running", "blocked"}
    /\ child' = [child EXCEPT ![i] = "signaled"]
    /\ status' = [status EXCEPT ![i] = [kind |-> "signal"]]
    /\ UNCHANGED <<oserr, pc, rustfmt, stdin, out, result, stdoutPipe,
                   stderrPipe, file, path, asked, spawns, waits, before,
                   rewrote>>

\* -------------------------------------------------------- specifications
\* One step of invocation i or of its child; the child's bytes, the OS
\* errors and the exit codes are drawn from B, E and C, and at most M bytes
\* are written.
Step(i, B, E, C, M) ==
    \/ \E p \in ToolPaths : LocateFound(i, p)
    \/ LocateMissing(i)
    \/ SpawnOk(i)
    \/ \E e \in E : SpawnFail(i, e)
    \/ WaitBegin(i)
    \/ WaitOk(i)
    \/ \E e \in E : WaitFail(i, e)
    \/ ClassifyNoCode(i)
    \/ ClassifyFailure(i)
    \/ ClassifySuccess(i)
    \/ \E b \in B : ToolWriteStdout(i, b, M)
    \/ \E b \in B : ToolWriteStderr(i, b, M)
    \/ ToolReadStdin(i)
    \/ ToolStdinEof(i)
    \/ ToolRewrite(i)
    \/ \E c \in C : ToolExit(i, c)
    \/ ToolKilled(i)

\* A single invocation with the full range of child behaviour.
Next == Step(1, Bytes, OsErrors, ExitCodes, MaxOut)

Spec == Init /\ [][Next]_vars

\* Inputs of the concurrent specification.
ConcBytes == {169}
ConcErrors == {"EACCES"}
ConcCodes == {0, 1}

\* All invocations interleaved, step by step.
NextConc ==
    \E i \in Calls : Step(i, ConcBytes, ConcErrors, ConcCodes, MaxConcOut)

SpecConc == InitConc /\ [][NextConc]_vars

\* ------------------------------------------------------------- properties
Classified(i) == pc[i] = "Classified"

\* The phase of the per-invocation state machine a position belongs to.
Phase(p) == IF p = "Waiting" THEN "ProcessSpawned" ELSE p

Rank(p) ==
    CASE Phase(p) = "NotStarted" -> 0
      [] Phase(p) = "ToolResolved" -> 1
      [] Phase(p) = "ProcessSpawned" -> 2
      [] Phase(p) = "ProcessExited" -> 3
      [] Phase(p) = "Classified" -> 4

\* The UTF-8 encoding of one scalar value below U+0800.
EncodeChar(c) ==
    IF c < 128 THEN <<c>> ELSE <<192 + (c \div 64), 128 + (c % 64)>>

RECURSIVE Utf8Encode(_)
\* The UTF-8 encoding of a string of scalar values.
Utf8Encode(str) ==
    IF str = <<>> THEN <<>>
    ELSE EncodeChar(Head(str)) \o Utf8Encode(Tail(str))

\* The scalar values whose encoding is made of the bytes a child can write.
\* No byte of Bytes starts a three or four byte sequence, so all are < U+0800.
Scalars ==
    {c \in 0..2047 : \A k \in DOMAIN EncodeChar(c) : EncodeChar(c)[k] \in Bytes}

\* bs is valid UTF-8: it is the encoding of some string.
IsUtf8(bs) ==
    \E n \in 0..Len(bs) : \E str \in [1..n -> Scalars] : Utf8Encode(str) = bs

\* The stream st is the conversion of the captured bytes bs.
Converted(bs, st) ==
    IF IsUtf8(bs)
    THEN /\ st.tag = "Text"
         /\ st = [tag |-> "Text", text |-> st.text]
         /\ Utf8Encode(st.text) = bs
    ELSE st = [tag |-> "InvalidUtf8"]

\* C1: when the locator returns no path, no process is spawned and the call
\* returns ToolMissing carrying the name the locator was asked for, "rustfmt".
C1_ToolMissing ==
    \A i \in Calls :
        (asked[i] # <<>> /\ rustfmt[i] = None) =>
            /\ Classified(i)
            /\ spawns[i] = 0
            /\ child[i] = "none"
            /\ asked[i] = <<"rustfmt">>
            /\ result[i] = [kind |-> "ToolMissing", tool |-> asked[i][1]]

C1_Witness ==
    \E i \in Calls : Classified(i) /\ rustfmt[i] = None /\ asked[i] # <<>>

\* C2: when the process exits with a non-zero code c, the call returns
\* ToolExecutionError with code c, stdout made from the bytes written to the
\* stdout pipe and stderr from the bytes written to the stderr pipe.
C2_ExecutionError ==
    \A i \in Calls :
        (Classified(i) /\ out[i].kind = "Output" /\ child[i] = "exited"
                       /\ status[i].code # 0) =>
            result[i] = [kind |-> "ToolExecutionError",
                         code |-> status[i].code,
                         stdout |-> IoStreamFrom(FromUtf8(stdoutPipe[i])),
                         stderr |-> IoStreamFrom(FromUtf8(stderrPipe[i]))]

C2_Witness ==
    \E i \in Calls :
        /\ Classified(i) /\ out[i].kind = "Output" /\ child[i] = "exited"
        /\ status[i].code = 2
        /\ stdoutPipe[i] = <<65>>
        /\ stderrPipe[i] = <<195, 169>>

\* C3: the call returns Ok(()) exactly when the locator returned a path, the
\* spawn and the wait succeeded and the process exited with code zero, whatever
\* the process wrote to its pipes.
C3_SuccessIff ==
    \A i \in Calls :
        Classified(i) =>
            /\ result[i].kind = "Ok" <=>
                   /\ rustfmt[i] # None
                   /\ child[i] # "none"
                   /\ out[i].kind = "Output"
                   /\ status[i].kind = "exit"
                   /\ status[i].code = 0
            /\ result[i].kind = "Ok" => result[i] = [kind |-> "Ok"]

C3_Witness ==
    \E i \in Calls :
        /\ Classified(i) /\ result[i].kind = "Ok"
        /\ ~IsUtf8(stdoutPipe[i])
        /\ stderrPipe[i] # <<>>

\* C4: each stream of a ToolExecutionError is InvalidUtf8 exactly when its own
\* captured bytes are not valid UTF-8 and otherwise Text holding the whole
\* decoded content; the other stream, the kind and the code are not affected.
C4_StreamConversion ==
    \A i \in Calls :
        result[i].kind = "ToolExecutionError" =>
            /\ Converted(stdoutPipe[i], result[i].stdout)
            /\ Converted(stderrPipe[i], result[i].stderr)
            /\ result[i].code = status[i].code

C4_Witness ==
    \E i \in Calls :
        /\ result[i].kind = "ToolExecutionError"
        /\ result[i].stdout = [tag |-> "Text", text |-> <<233>>]
        /\ result[i].stderr = [tag |-> "InvalidUtf8"]

\* C5: when the process terminates without an exit code, the call returns
\* NoResultCode, which carries neither a code nor the captured streams.
C5_NoResultCode ==
    \A i \in Calls :
        (Classified(i) /\ out[i].kind = "Output" /\ child[i] = "signaled") =>
            result[i] = [kind |-> "NoResultCode"]

C5_Witness ==
    \E i \in Calls :
        /\ Classified(i) /\ out[i].kind = "Output" /\ child[i] = "signaled"
        /\ stdoutPipe[i] # <<>>
        /\ stderrPipe[i] # <<>>

\* C6: a failing spawn or wait makes the call return IoError wrapping the OS
\* error; after a failed spawn no wait is made and no status is classified.
C6_IoError ==
    \A i \in Calls :
        /\ (spawns[i] > 0 /\ child[i] = "none") =>
               /\ Classified(i)
               /\ waits[i] = 0
               /\ out[i] = NoOutput
        /\ oserr[i] # None =>
               /\ Classified(i)
               /\ out[i] = NoOutput
               /\ result[i] = [kind |-> "IoError", error |-> oserr[i][1]]

C6_Witness ==
    \E i \in Calls :
        /\ oserr[i] # None /\ waits[i] = 1
        /\ child[i] = "exited" /\ status[i].code # 0

\* C7: the invocation never writes the target file: a file changes only by a
\* running child rewriting its own target; with no process spawned the file is
\* as before the call, and after Ok(()) it is the tool's formatting of it.
C7Step ==
    /\ \A p \in Paths :
           file'[p] # file[p] =>
               /\ \E i \in Calls : /\ path[i] = p
                                   /\ child[i] = "running"
                                   /\ file'[p] = Fmt(file[p])
               /\ pc' = pc
               /\ result' = result
    /\ \A i \in Calls :
           /\ (Classified(i)' /\ child'[i] = "none") => file' = before
           /\ result'[i].kind = "Ok" =>
                  file' = [before EXCEPT ![path[i]] = Fmt(@)]

C7_FileUntouched == [][C7Step]_vars

C7_Witness ==
    \E i \in Calls :
        /\ result[i].kind = "Ok"
        /\ before[path[i]] = "messy"
        /\ file[path[i]] = "formatted"

\* C8: the phases of an invocation only advance in the order NotStarted,
\* ToolResolved, ProcessSpawned, ProcessExited, Classified; a failure goes
\* straight to Classified; Classified is terminal with exactly one outcome;
\* the locator is asked at most once and at most one process is spawned.
ResultKinds ==
    {"Ok", "ToolMissing", "ToolExecutionError", "IoError", "NoResultCode"}

C8Step ==
    \A i \in Calls :
        /\ \/ Rank(pc'[i]) = Rank(pc[i])
           \/ Rank(pc'[i]) = Rank(pc[i]) + 1
           \/ Classified(i)' /\ result'[i].kind \in ResultKinds \ {"Ok"}
        /\ Classified(i) => pc'[i] = pc[i] /\ result'[i] = result[i]
        /\ Classified(i)' <=> result'[i].kind \in ResultKinds
        /\ ~Classified(i)' => result'[i] = Pending
        /\ Len(asked'[i]) <= 1
        /\ spawns'[i] <= 1
        /\ waits'[i] <= 1

C8_PhaseOrder == [][C8Step]_vars

C8_Witness ==
    \E i \in Calls :
        /\ Classified(i) /\ result[i].kind = "Ok"
        /\ Len(asked[i]) = 1 /\ spawns[i] = 1 /\ waits[i] = 1

\* C9 as stated: the parent never closes the child's stdin pipe, so a child
\* blocked reading its stdin stays blocked and the call does not return.
C9_StdinNeverClosed ==
    \A i \in Calls :
        /\ child[i] # "none" => stdin[i] = "open"
        /\ child[i] = "blocked" => ~Classified(i)

\* C9 as amended: the parent holds the child's stdin pipe open only until it
\* starts to wait; wait_with_output closes it, so a child blocked reading its
\* stdin is handed end-of-file during the wait and the wait can complete.
C9_StdinClosedOnWait ==
    \A i \in Calls :
        /\ stdin[i] = "open" <=> pc[i] = "ProcessSpawned"
        /\ (child[i] # "none" /\ pc[i] # "ProcessSpawned") => stdin[i] = "closed"
        /\ (child[i] = "blocked" /\ pc[i] # "ProcessSpawned") =>
               ENABLED ToolStdinEof(i)
        /\ out[i].kind = "Output" => child[i] # "blocked"

C9_Witness ==
    \E i \in Calls :
        child[i] = "blocked" /\ pc[i] = "Waiting" /\ stdin[i] = "closed"

\* C10: concurrent invocations do not interfere: a step changes the locals,
\* the process and the pipes of one invocation only, and every result is the
\* one its own locator answer, OS errors, exit status and output give; two
\* children may run on the same path at the same time.
Local(i) ==
    <<pc[i], rustfmt[i], stdin[i], out[i], result[i], child[i], status[i],
      stdoutPipe[i], stderrPipe[i], asked[i], spawns[i], waits[i], oserr[i]>>

Outcome(i) ==
    IF rustfmt[i] = None THEN [kind |-> "ToolMissing", tool |-> "rustfmt"]
    ELSE IF oserr[i] # None THEN [kind |-> "IoError", error |-> oserr[i][1]]
    ELSE IF status[i].kind = "signal" THEN [kind |-> "NoResultCode"]
    ELSE IF status[i].code = 0 THEN [kind |-> "Ok"]
    ELSE [kind |-> "ToolExecutionError",
          code |-> status[i].code,
          stdout |-> IoStreamFrom(FromUtf8(stdoutPipe[i])),
          stderr |-> IoStreamFrom(FromUtf8(stderrPipe[i]))]

C10Step ==
    /\ Cardinality({i \in Calls : Local(i)' # Local(i)}) <= 1
    /\ \A i \in Calls : Classified(i)' => result'[i] = Outcome(i)'

C10_Isolation == [][C10Step]_vars

C10_Witness ==
    \E i, j \in Calls :
        /\ i # j
        /\ path[i] = path[j]
        /\ child[i] = "running" /\ child[j] = "running"
        /\ stdoutPipe[i] # stdoutPipe[j]

====
